---- MODULE Spec2Model ----
(***************************************************************************)
(* Model of the Addicted dashboard: the browser script (src/main.js) and   *)
(* the data service (src/unnamed/part_000).                                *)
(*                                                                         *)
(* JavaScript values are tagged records; strings are sequences of          *)
(* one-character strings; numbers are exact decimals (sign, integer        *)
(* digits, fraction digits), so parsing and formatting are computed digit  *)
(* by digit.  Binary floating-point rounding error is not modelled.        *)
(***************************************************************************)
EXTENDS Integers, Sequences, FiniteSets, TLC

VARIABLES
    env,      \* which program runs: "browser" (main.js) or "node" (data service)
    pc,       \* position of the running flow
    fn,       \* node: the exported function being called
    res,      \* the response the running fetcher received (its local `res`)
    ret,      \* node: the value the call's promise resolved with
    price,    \* browser: updateDashboard's local `price`
    supply,   \* browser: updateDashboard's local `supply`
    dom,      \* browser: element id -> text content, or Absent
    trace,    \* browser: requests issued, fetches resolved and DOM writes, in order
    console   \* diagnostics logged with console.error

vars == <<env, pc, fn, res, ret, price, supply, dom, trace, console>>

-----------------------------------------------------------------------------
(* Bounds of the input space *)

MaxLen == 3

-----------------------------------------------------------------------------
(* JavaScript values *)

Undef == [undef |-> TRUE]
Null == [null |-> TRUE]
NaN == [nan |-> TRUE]
Bool(b) == [bool |-> b]
Str(s) == [str |-> s]
Obj(f) == [obj |-> f]
\* a finite decimal number: (-1)^neg * ip.fp, ip without leading zeros,
\* fp without trailing zeros
Num(neg, ip, fp) == [num |-> [neg |-> neg, ip |-> ip, fp |-> fp]]

IsNum(v) == DOMAIN v = {"num"}
IsStr(v) == DOMAIN v = {"str"}
IsObj(v) == DOMAIN v = {"obj"}
IsBool(v) == DOMAIN v = {"bool"}
IsZero(v) == IsNum(v) /\ v.num.ip = <<"0">> /\ v.num.fp = <<>>
IsPositive(v) == IsNum(v) /\ ~v.num.neg /\ ~IsZero(v)

DigitChars == <<"0", "1", "2", "3", "4", "5", "6", "7", "8", "9">>
IsDigit(c) == \E i \in 1..10 : DigitChars[i] = c
DigitVal(c) == (CHOOSE i \in 1..10 : DigitChars[i] = c) - 1

RECURSIVE StripLeadingZeros(_)
StripLeadingZeros(ds) ==
    IF Len(ds) > 1 /\ Head(ds) = "0" THEN StripLeadingZeros(Tail(ds)) ELSE ds

RECURSIVE StripTrailingZeros(_)
StripTrailingZeros(ds) ==
    IF Len(ds) > 0 /\ ds[Len(ds)] = "0"
    THEN StripTrailingZeros(SubSeq(ds, 1, Len(ds) - 1))
    ELSE ds

\* the decimal number written with integer digits ip and fraction digits fp
Decimal(neg, ip, fp) ==
    Num(neg, StripLeadingZeros(IF ip = <<>> THEN <<"0">> ELSE ip), StripTrailingZeros(fp))

\* ToBoolean
Truthy(v) ==
    CASE DOMAIN v = {"undef"} -> FALSE
      [] DOMAIN v = {"null"} -> FALSE
      [] DOMAIN v = {"nan"} -> FALSE
      [] IsBool(v) -> v.bool
      [] IsNum(v) -> ~IsZero(v)
      [] IsStr(v) -> v.str # <<>>
      [] OTHER -> TRUE

\* Number::toString for a decimal in the range written without an exponent
NumberToString(n) ==
    (IF n.neg /\ ~(n.ip = <<"0">> /\ n.fp = <<>>) THEN <<"-">> ELSE <<>>)
        \o n.ip \o (IF n.fp = <<>> THEN <<>> ELSE <<".">> \o n.fp)

\* ToString (the abstract operation)
JSToString(v) ==
    CASE DOMAIN v = {"undef"} -> <<"u", "n", "d", "e", "f", "i", "n", "e", "d">>
      [] DOMAIN v = {"null"} -> <<"n", "u", "l", "l">>
      [] DOMAIN v = {"nan"} -> <<"N", "a", "N">>
      [] IsBool(v) -> IF v.bool THEN <<"t", "r", "u", "e">> ELSE <<"f", "a", "l", "s", "e">>
      [] IsNum(v) -> NumberToString(v.num)
      [] IsStr(v) -> v.str
      [] OTHER -> <<"[", "o", "b", "j", "e", "c", "t", " ", "O", "b", "j", "e", "c", "t", "]">>

-----------------------------------------------------------------------------
(* parseFloat, Number.prototype.toFixed, Number.prototype.toLocaleString *)

RECURSIVE TrimStart(_)
TrimStart(s) == IF s # <<>> /\ Head(s) = " " THEN TrimStart(Tail(s)) ELSE s

\* length of the longest prefix of s made of decimal digits
RECURSIVE DigitPrefixLen(_)
DigitPrefixLen(s) ==
    IF s # <<>> /\ IsDigit(Head(s)) THEN 1 + DigitPrefixLen(Tail(s)) ELSE 0

\* faulty variant: parseInt, which stops at the point
ParseIntegerPrefix(s) ==
    LET signed == s # <<>> /\ Head(s) \in {"+", "-"}
        neg == s # <<>> /\ Head(s) = "-"
        body == IF signed THEN Tail(s) ELSE s
        n1 == DigitPrefixLen(body)
    IN  IF n1 = 0 THEN NaN ELSE Decimal(neg, SubSeq(body, 1, n1), <<>>)

\* the longest prefix of the trimmed string that is a decimal literal
\* (sign, digits, optional point and digits), or NaN when there is none
ParseDecimalPrefix(s) ==
    LET signed == s # <<>> /\ Head(s) \in {"+", "-"}
        neg == s # <<>> /\ Head(s) = "-"
        body == IF signed THEN Tail(s) ELSE s
        n1 == DigitPrefixLen(body)
        ip == SubSeq(body, 1, n1)
        rest == SubSeq(body, n1 + 1, Len(body))
        n2 == IF rest # <<>> /\ Head(rest) = "." THEN DigitPrefixLen(Tail(rest)) ELSE 0
        fp == IF n2 > 0 THEN SubSeq(rest, 2, n2 + 1) ELSE <<>>
    IN  IF n1 = 0 /\ n2 = 0 THEN NaN ELSE Decimal(neg, ip, fp)

parseFloat(v) == ParseDecimalPrefix(TrimStart(JSToString(v)))

\* the digit string ds plus one
RECURSIVE Increment(_)
Increment(ds) ==
    IF ds = <<>> THEN <<"1">>
    ELSE LET front == SubSeq(ds, 1, Len(ds) - 1)
             last == ds[Len(ds)]
         IN  IF last = "9" THEN Increment(front) \o <<"0">>
             ELSE front \o <<DigitChars[DigitVal(last) + 2]>>

RECURSIVE Zeros(_)
Zeros(k) == IF k <= 0 THEN <<>> ELSE <<"0">> \o Zeros(k - 1)

\* |n| rounded to f fraction digits, ties away from zero: [ip, fp] with Len(fp) = f
RoundDigits(n, f) ==
    IF Len(n.fp) <= f THEN [ip |-> n.ip, fp |-> n.fp \o Zeros(f - Len(n.fp))]
    ELSE LET kept == n.ip \o SubSeq(n.fp, 1, f)
             up == DigitVal(n.fp[f + 1]) >= 5
             all == IF up THEN Increment(kept) ELSE kept
         IN  [ip |-> SubSeq(all, 1, Len(all) - f),
              fp |-> SubSeq(all, Len(all) - f + 1, Len(all))]

\* x.toFixed(f) for a Number x
toFixed(x, f) ==
    IF x = NaN THEN <<"N", "a", "N">>
    ELSE LET r == RoundDigits(x.num, f)
         IN  (IF x.num.neg /\ ~IsZero(x) THEN <<"-">> ELSE <<>>)
                 \o r.ip \o (IF f > 0 THEN <<".">> \o r.fp ELSE <<>>)

\* the separators of the locales the page is modelled under
Locales == {"en-US", "de-DE"}
GroupSep(locale) == IF locale = "de-DE" THEN "." ELSE ","
DecimalSep(locale) == IF locale = "de-DE" THEN "," ELSE "."

RECURSIVE Grouped(_, _)
Grouped(ds, sep) ==
    IF Len(ds) <= 3 THEN ds
    ELSE Grouped(SubSeq(ds, 1, Len(ds) - 3), sep) \o <<sep>> \o SubSeq(ds, Len(ds) - 2, Len(ds))

\* x.toLocaleString(undefined, { maximumFractionDigits: maxFrac }) under `locale`
toLocaleString(x, locale, maxFrac) ==
    IF x = NaN THEN <<"N", "a", "N">>
    ELSE LET r == RoundDigits(x.num, maxFrac)
             fp == StripTrailingZeros(r.fp)
         IN  (IF x.num.neg THEN <<"-">> ELSE <<>>)
                 \o Grouped(r.ip, GroupSep(locale))
                 \o (IF fp = <<>> THEN <<>> ELSE <<DecimalSep(locale)>> \o fp)

-----------------------------------------------------------------------------
(* Property access *)

Throw == [throw |-> "TypeError"]
IsNullish(v) == DOMAIN v = {"undef"} \/ DOMAIN v = {"null"}
HasKey(v, k) == IsObj(v) /\ k \in DOMAIN v.obj

\* v.k  : a TypeError when v is null or undefined (or already an exception)
Get(v, k) ==
    IF v = Throw \/ IsNullish(v) THEN Throw
    ELSE IF HasKey(v, k) THEN v.obj[k] ELSE Undef

\* v?.k : undefined when v is null or undefined
OptGet(v, k) ==
    IF IsNullish(v) THEN Undef
    ELSE IF HasKey(v, k) THEN v.obj[k] ELSE Undef

-----------------------------------------------------------------------------
(* Program constants *)

WEED_MINT_ADDRESS == "E2gLkTXSbbTMmJM19xkquawun2ShJSi7G59A8c2PtbFa"
TOTAL_SUPPLY == Num(FALSE, <<"2", "4", "0", "0", "0", "0", "0", "0", "0">>, <<>>)
PriceFractionDigits == 4
SupplyMaxFractionDigits == 3
PriceElementId == "weed-price"
SupplyElementId == "current-supply"

-----------------------------------------------------------------------------
(* HTTP responses: the inputs of the fetchers *)

\* fetch() rejected: no response at all
NetworkError == [failed |-> "network"]
\* a body res.json() cannot parse
NotJson == [text |-> "<html>"]
Json(v) == [json |-> v]
Response(status, body) == [status |-> status, body |-> body]

Statuses == {200, 299, 300, 429}
\* faulty variant: only client and server errors are failures
ResponseOk_Below400(r) == r.status < 400

\* Response.ok
ResponseOk(r) == r.status >= 200 /\ r.status <= 299

One == Num(FALSE, <<"1">>, <<>>)

\* values a "price" field is given
PriceNumbers ==
    { Num(FALSE, <<"0">>, <<"0", "0", "4", "2">>),          \* 0.0042
      Num(FALSE, <<"0">>, <<"0", "0", "4", "2", "5">>),     \* 0.00425
      Num(FALSE, <<"0">>, <<"9", "9", "9", "9", "6">>),     \* 0.99996
      Num(FALSE, <<"1", "2">>, <<"5">>),                    \* 12.5
      Num(FALSE, <<"0">>, <<>>),                            \* 0
      Num(TRUE, <<"0">>, <<"0", "0", "0", "0", "1">>) }     \* -0.00001
PriceFields ==
    PriceNumbers \cup
    { Bool(FALSE), Bool(TRUE), Null, Str(<<>>), Str(<<"0", ".", "5">>), Obj([usd |-> One]) }

PriceBodies ==
    { NotJson, Json(Null), Json(One),
      Json(Obj([timeTaken |-> One])),
      Json(Obj([data |-> Null])),
      Json(Obj([data |-> Obj([SOL |-> Obj([price |-> One])])])),
      Json(Obj([data |-> Obj(WEED_MINT_ADDRESS :> Null)])),
      Json(Obj([data |-> Obj(WEED_MINT_ADDRESS :> Obj([id |-> One]))])),
      Json(Obj(WEED_MINT_ADDRESS :> Obj([usdPrice |-> One]))) }
    \cup { Json(Obj([data |-> Obj(WEED_MINT_ADDRESS :> Obj([price |-> p]))])) : p \in PriceFields }

PriceResponses == {NetworkError} \cup { Response(st, b) : st \in Statuses, b \in PriceBodies }

\* the characters uiAmountString is drawn from
Alphabet == {"1", "5", ".", "-", " ", "x"}

RECURSIVE StringsUpTo(_)
StringsUpTo(n) ==
    IF n = 0 THEN {<<>>}
    ELSE LET shorter == StringsUpTo(n - 1)
         IN  shorter \cup { Append(s, c) : s \in { t \in shorter : Len(t) = n - 1 }, c \in Alphabet }

AmountStrings ==
    StringsUpTo(MaxLen) \cup
    { <<"1", "2", "3", "4", "5", "6", "7", "8", "9", ".", "1", "2", "3">>,
      <<"1", "2", "3", "4", ".", "5", "6", "7", "8">>,
      <<"9", "9", "9", ".", "9", "9", "9", "5">> }

AmountFields == { Str(s) : s \in AmountStrings } \cup { Null, Bool(TRUE), Num(FALSE, <<"1", "2">>, <<"5">>) }

SupplyBodies ==
    { NotJson, Json(Null), Json(One),
      Json(Obj([error |-> Obj([code |-> One])])),
      Json(Obj([result |-> Null])),
      Json(Obj([result |-> Obj([context |-> One])])),
      Json(Obj([result |-> Obj([value |-> Null])])),
      Json(Obj([result |-> Obj([value |-> One])])),
      Json(Obj([result |-> Obj([value |-> Obj([amount |-> Str(<<"1">>)])])])) }
    \cup { Json(Obj([result |-> Obj([value |-> Obj([uiAmountString |-> a])])])) : a \in AmountFields }

SupplyResponses == {NetworkError} \cup { Response(st, b) : st \in Statuses, b \in SupplyBodies }

-----------------------------------------------------------------------------
(* The fetchers: what each resolves with for a response, and whether it    *)
(* logged a diagnostic                                                     *)

Result(v, logged) == [value |-> v, logged |-> logged]

\* data?.data?.[WEED_MINT_ADDRESS]
PriceInfo(data) == OptGet(OptGet(data, "data"), WEED_MINT_ADDRESS)

\* faulty variant: priceInfo?.price ?? null
PriceOrNull_Nullish(priceInfo) ==
    LET p == OptGet(priceInfo, "price") IN IF IsNullish(p) THEN Null ELSE p

\* priceInfo?.price || null
PriceOrNull(priceInfo) ==
    LET p == OptGet(priceInfo, "price") IN IF Truthy(p) THEN p ELSE Null

getWeedPrice(r) ==
    IF r = NetworkError THEN Result(Null, TRUE)
    ELSE IF r.body = NotJson THEN Result(Null, TRUE)
    ELSE Result(PriceOrNull(PriceInfo(r.body.json)), FALSE)

fetchWeedPrice(r) ==
    IF r = NetworkError THEN Result(Null, TRUE)
    ELSE IF r.body = NotJson THEN Result(Null, TRUE)
    ELSE Result(PriceOrNull(PriceInfo(r.body.json)), FALSE)

\* data.result.value.uiAmountString
UiAmountString(data) == Get(Get(Get(data, "result"), "value"), "uiAmountString")

getTokenSupply(r) ==
    IF r = NetworkError THEN Result(Null, TRUE)
    ELSE IF ~ResponseOk(r) THEN Result(Null, TRUE)
    ELSE IF r.body = NotJson THEN Result(Null, TRUE)
    ELSE LET amount == UiAmountString(r.body.json)
         IN  IF amount = Throw THEN Result(Null, TRUE)
             ELSE Result(Obj([total |-> TOTAL_SUPPLY, supply |-> parseFloat(amount)]), FALSE)

fetchWeedSupply(r) ==
    IF r = NetworkError THEN Result(Null, TRUE)
    ELSE IF ~ResponseOk(r) THEN Result(Null, TRUE)
    ELSE IF r.body = NotJson THEN Result(Null, TRUE)
    ELSE LET amount == UiAmountString(r.body.json)
         IN  IF amount = Throw THEN Result(Null, TRUE)
             ELSE Result(parseFloat(amount), FALSE)

\* the stubs
getMintBurnEvents(limit) == Result(Null, FALSE)
getPackDistribution(programId) == Result(Null, FALSE)

-----------------------------------------------------------------------------
(* State *)

NoResponse == [none |-> TRUE]
Element(present, text) == [present |-> present, text |-> text]
Placeholder == <<"-", "-">>
ElementIds == {PriceElementId, SupplyElementId}

\* the pages the script is loaded into: each display element present with its
\* placeholder text, or absent
Pages ==
    { [id \in ElementIds |-> Element(id \in shown, IF id \in shown THEN Placeholder ELSE <<>>)] :
        shown \in SUBSET ElementIds }
NoPage == [id \in ElementIds |-> Element(FALSE, <<>>)]

Logged(out, message) == IF out.logged THEN console \cup {message} ELSE console

Init ==
    /\ env \in {"browser", "node"}
    /\ pc = IF env = "browser" THEN "loading" ELSE "idle"
    /\ fn = "none"
    /\ res = NoResponse
    /\ ret = Undef
    /\ price = Undef
    /\ supply = Undef
    /\ dom \in IF env = "browser" THEN Pages ELSE {NoPage}
    /\ trace = <<>>
    /\ console = {}

-----------------------------------------------------------------------------
(* The browser script *)

\* faulty variant: both requests are issued at once
DOMContentLoaded_Parallel ==
    /\ env = "browser"
    /\ pc = "loading"
    /\ pc' = "price_pending"
    /\ trace' = trace \o <<"updateDashboard", "price_request", "supply_request">>
    /\ UNCHANGED <<env, fn, res, ret, price, supply, dom, console>>

\* the DOMContentLoaded listener calls updateDashboard, which calls
\* fetchWeedPrice, which issues the price request
DOMContentLoaded ==
    /\ env = "browser"
    /\ pc = "loading"
    /\ pc' = "price_pending"
    /\ trace' = trace \o <<"updateDashboard", "price_request">>
    /\ UNCHANGED <<env, fn, res, ret, price, supply, dom, console>>

\* faulty variant: a failed price fetch is tried again
PriceSettled_Retry ==
    /\ env = "browser"
    /\ pc = "price_pending"
    /\ \E r \in PriceResponses :
        LET out == fetchWeedPrice(r)
        IN  /\ res' = r
            /\ price' = out.value
            /\ console' = Logged(out, "Failed to fetch WEED price:")
            /\ IF out.logged
               THEN pc' = "price_pending" /\ trace' = Append(trace, "price_request")
               ELSE pc' = "price_done" /\ trace' = Append(trace, "price_resolved")
    /\ UNCHANGED <<env, fn, ret, supply, dom>>

\* the price request settles; fetchWeedPrice resolves and updateDashboard
\* stores its value in `price`
PriceSettled ==
    /\ env = "browser"
    /\ pc = "price_pending"
    /\ \E r \in PriceResponses :
        LET out == fetchWeedPrice(r)
        IN  /\ res' = r
            /\ price' = out.value
            /\ console' = Logged(out, "Failed to fetch WEED price:")
    /\ pc' = "price_done"
    /\ trace' = Append(trace, "price_resolved")
    /\ UNCHANGED <<env, fn, ret, supply, dom>>

\* updateDashboard calls fetchWeedSupply, which issues the supply request
SupplyRequested ==
    /\ env = "browser"
    /\ pc = "price_done"
    /\ pc' = "supply_pending"
    /\ res' = NoResponse
    /\ trace' = Append(trace, "supply_request")
    /\ UNCHANGED <<env, fn, ret, price, supply, dom, console>>

\* the supply request settles; fetchWeedSupply resolves and updateDashboard
\* stores its value in `supply`
SupplySettled ==
    /\ env = "browser"
    /\ pc = "supply_pending"
    /\ \E r \in SupplyResponses :
        LET out == fetchWeedSupply(r)
        IN  /\ res' = r
            /\ supply' = out.value
            /\ console' = Logged(out, "Failed to fetch token supply:")
    /\ pc' = "supply_done"
    /\ trace' = Append(trace, "supply_resolved")
    /\ UNCHANGED <<env, fn, ret, price, dom>>

\* faulty variant: the price is formatted before the element is looked up
PriceWriteThrows_BeforeLookup(p, d) == p # Null /\ ~IsNum(p)

\* if (price !== null) { priceEl = getElementById(...); if (priceEl) ... }
WritesPrice(p, d) == p # Null /\ d[PriceElementId].present
\* price.toFixed is not a function unless price is a Number
PriceWriteThrows(p, d) == WritesPrice(p, d) /\ ~IsNum(p)
PriceText(p) == <<"$">> \o toFixed(p, PriceFractionDigits)

\* faulty variant: the supply is written only after a price was
WritesSupply_AfterPrice(s, d) == price # Null /\ s # Null /\ d[SupplyElementId].present

\* if (supply !== null) { supplyEl = getElementById(...); if (supplyEl) ... }
WritesSupply(s, d) == s # Null /\ d[SupplyElementId].present
SupplyText(s, locale) == toLocaleString(s, locale, SupplyMaxFractionDigits)

\* the rest of updateDashboard, run in one turn once both fetches resolved
Render ==
    /\ env = "browser"
    /\ pc = "supply_done"
    /\ res' = NoResponse
    /\ IF PriceWriteThrows(price, dom)
       THEN /\ pc' = "rejected"
            /\ UNCHANGED <<dom, trace>>
       ELSE \E locale \in Locales :
            LET d1 == IF WritesPrice(price, dom)
                      THEN [dom EXCEPT ![PriceElementId].text = PriceText(price)]
                      ELSE dom
                d2 == IF WritesSupply(supply, dom)
                      THEN [d1 EXCEPT ![SupplyElementId].text = SupplyText(supply, locale)]
                      ELSE d1
            IN  /\ dom' = d2
                /\ trace' = trace
                            \o (IF WritesPrice(price, dom) THEN <<"write_price">> ELSE <<>>)
                            \o (IF WritesSupply(supply, dom) THEN <<"write_supply">> ELSE <<>>)
                /\ pc' = "fulfilled"
    /\ UNCHANGED <<env, fn, ret, price, supply, console>>

BrowserNext == DOMContentLoaded \/ PriceSettled \/ SupplyRequested \/ SupplySettled \/ Render

-----------------------------------------------------------------------------
(* The data service: calls of its exported functions, one at a time *)

CallGetWeedPrice ==
    /\ env = "node"
    /\ pc = "idle"
    /\ fn' = "getWeedPrice"
    /\ pc' = "pending"
    /\ UNCHANGED <<env, res, ret, price, supply, dom, trace, console>>

GetWeedPriceSettled ==
    /\ env = "node"
    /\ pc = "pending"
    /\ fn = "getWeedPrice"
    /\ \E r \in PriceResponses :
        LET out == getWeedPrice(r)
        IN  /\ res' = r
            /\ ret' = out.value
            /\ console' = Logged(out, "Failed to fetch WEED price:")
    /\ pc' = "returned"
    /\ UNCHANGED <<env, fn, price, supply, dom, trace>>

CallGetTokenSupply ==
    /\ env = "node"
    /\ pc = "idle"
    /\ fn' = "getTokenSupply"
    /\ pc' = "pending"
    /\ UNCHANGED <<env, res, ret, price, supply, dom, trace, console>>

GetTokenSupplySettled ==
    /\ env = "node"
    /\ pc = "pending"
    /\ fn = "getTokenSupply"
    /\ \E r \in SupplyResponses :
        LET out == getTokenSupply(r)
        IN  /\ res' = r
            /\ ret' = out.value
            /\ console' = Logged(out, "Failed to fetch token supply:")
    /\ pc' = "returned"
    /\ UNCHANGED <<env, fn, price, supply, dom, trace>>

CallGetMintBurnEvents ==
    /\ env = "node"
    /\ pc = "idle"
    /\ \E limit \in {1, 100} :
        /\ ret' = getMintBurnEvents(limit).value
    /\ fn' = "getMintBurnEvents"
    /\ pc' = "returned"
    /\ UNCHANGED <<env, res, price, supply, dom, trace, console>>

CallGetPackDistribution ==
    /\ env = "node"
    /\ pc = "idle"
    /\ \E programId \in {"openSeedPack"} :
        /\ ret' = getPackDistribution(programId).value
    /\ fn' = "getPackDistribution"
    /\ pc' = "returned"
    /\ UNCHANGED <<env, res, price, supply, dom, trace, console>>

\* the caller has the result; the call's locals are gone
Returned ==
    /\ env = "node"
    /\ pc = "returned"
    /\ pc' = "idle"
    /\ fn' = "none"
    /\ res' = NoResponse
    /\ ret' = Undef
    /\ UNCHANGED <<env, price, supply, dom, trace, console>>

NodeNext ==
    \/ CallGetWeedPrice \/ GetWeedPriceSettled
    \/ CallGetTokenSupply \/ GetTokenSupplySettled
    \/ CallGetMintBurnEvents \/ CallGetPackDistribution
    \/ Returned

-----------------------------------------------------------------------------

Next == BrowserNext \/ NodeNext

Spec == Init /\ [][Next]_vars

\* every request settles and every ready continuation of the page is run
FairSpec == Spec /\ WF_vars(BrowserNext)

-----------------------------------------------------------------------------
(* Vocabulary of the properties *)

\* a fetcher has just resolved: `res` is the response it received
PriceFetched ==
    \/ env = "node" /\ pc = "returned" /\ fn = "getWeedPrice"
    \/ env = "browser" /\ pc = "price_done"
PriceReturn == IF env = "node" THEN ret ELSE price
SupplyFetched ==
    \/ env = "node" /\ pc = "returned" /\ fn = "getTokenSupply"
    \/ env = "browser" /\ pc = "supply_done"
SupplyReturn == IF env = "node" THEN ret ELSE supply

HasResponse == res # NoResponse /\ res # NetworkError
HasJson == HasResponse /\ res.body # NotJson
HttpFailure == HasResponse /\ (res.status < 200 \/ res.status > 299)

\* the JSON body has data[<mint>], and that entry has a price
HasPriceEntry ==
    /\ HasJson
    /\ HasKey(res.body.json, "data")
    /\ HasKey(res.body.json.obj.data, WEED_MINT_ADDRESS)
PriceEntry == res.body.json.obj.data.obj[WEED_MINT_ADDRESS]
HasPriceField == HasPriceEntry /\ HasKey(PriceEntry, "price")
PriceField == PriceEntry.obj.price

\* the JSON body has result.value.uiAmountString
HasAmountField ==
    /\ HasJson
    /\ HasKey(res.body.json, "result")
    /\ HasKey(res.body.json.obj.result, "value")
    /\ HasKey(res.body.json.obj.result.obj.value, "uiAmountString")
AmountField == res.body.json.obj.result.obj.value.obj.uiAmountString

\* s is, as a whole, an optional minus sign, digits, and optionally a point and digits
PointIndex(s) == CHOOSE i \in 1..Len(s) : s[i] = "."
IsDecimalString(s) ==
    LET body == IF s # <<>> /\ Head(s) = "-" THEN Tail(s) ELSE s
        points == { i \in 1..Len(body) : body[i] = "." }
    IN  /\ body # <<>>
        /\ \A i \in 1..Len(body) : IsDigit(body[i]) \/ body[i] = "."
        /\ Cardinality(points) <= 1
        /\ \A i \in points : i > 1 /\ i < Len(body)
\* the number a decimal string denotes
DecimalValue(s) ==
    LET neg == Head(s) = "-"
        body == IF neg THEN Tail(s) ELSE s
    IN  IF \E i \in 1..Len(body) : body[i] = "."
        THEN Decimal(neg, SubSeq(body, 1, PointIndex(body) - 1),
                     SubSeq(body, PointIndex(body) + 1, Len(body)))
        ELSE Decimal(neg, body, <<>>)

\* s holds no digit, so no number
NoDigit(s) == \A i \in 1..Len(s) : ~IsDigit(s[i])

Count(e) == Cardinality({ i \in DOMAIN trace : trace[i] = e })
Occurs(e) == \E i \in DOMAIN trace : trace[i] = e
Precedes(a, b) == \E i, j \in DOMAIN trace : i < j /\ trace[i] = a /\ trace[j] = b

BothAbsent == ~dom[PriceElementId].present /\ ~dom[SupplyElementId].present

-----------------------------------------------------------------------------
(* Properties *)

\* C1: for a JSON body, the price fetcher returns data[<mint>].price exactly
\* when that entry has a positive numeric price, and null when the entry is
\* missing or its price is zero, false or absent.
C1_PriceContract ==
    (PriceFetched /\ HasJson) =>
        /\ (HasPriceField /\ IsPositive(PriceField)) => PriceReturn = PriceField
        /\ (~HasPriceField \/ IsZero(PriceField) \/ PriceField = Bool(FALSE)) => PriceReturn = Null

C1_Witness ==
    /\ env = "node" /\ pc = "returned" /\ fn = "getWeedPrice"
    /\ HasPriceField /\ IsPositive(PriceField)
    /\ ret = Num(FALSE, <<"0">>, <<"0", "0", "4", "2">>)

\* C2: for a 2xx response whose result.value.uiAmountString is a string,
\* getTokenSupply returns total 240000000 and, as supply, the parse of that
\* string; for a string that is a decimal literal that is the number it denotes.
C2_SupplyContract ==
    (env = "node" /\ pc = "returned" /\ fn = "getTokenSupply"
        /\ HasResponse /\ ~HttpFailure /\ HasAmountField /\ IsStr(AmountField)) =>
        /\ IsObj(ret)
        /\ DOMAIN ret.obj = {"total", "supply"}
        /\ ret.obj.total = Num(FALSE, <<"2", "4", "0", "0", "0", "0", "0", "0", "0">>, <<>>)
        /\ ret.obj.supply = parseFloat(AmountField)
        /\ IsDecimalString(AmountField.str) => ret.obj.supply = DecimalValue(AmountField.str)

C2_Witness ==
    /\ env = "node" /\ pc = "returned" /\ fn = "getTokenSupply"
    /\ HasAmountField /\ AmountField = Str(<<"1", ".", "5">>)
    /\ res.status = 299
    /\ ret.obj.supply = Num(FALSE, <<"1">>, <<"5">>)

\* C3: for a non-2xx status the supply fetcher resolves with null, whatever
\* the body (its promise resolves: the caller holds a value, not an exception).
C3_SupplyNullOnHttpFailure ==
    (SupplyFetched /\ HttpFailure) => SupplyReturn = Null

C3_Witness ==
    /\ env = "browser" /\ pc = "supply_done"
    /\ HttpFailure /\ res.status = 429
    /\ HasAmountField /\ AmountField = Str(<<"1", ".", "5">>)
    /\ supply = Null

\* C4: for a non-success status the price fetcher returns null, whatever the body.
C4_PriceNullOnHttpFailure ==
    (PriceFetched /\ HttpFailure) => PriceReturn = Null

\* C5: for a body that is not JSON, or a JSON body lacking the expected field
\* (for the RPC: no uiAmountString, or one holding no number at all), the
\* fetcher returns null.
C5_NullOnMalformedBody ==
    /\ (PriceFetched /\ HasResponse /\ ~HasPriceField) => PriceReturn = Null
    /\ (SupplyFetched /\ HasResponse
            /\ (~HasAmountField \/ (IsStr(AmountField) /\ NoDigit(AmountField.str))))
        => SupplyReturn = Null

\* C6: in the rest of updateDashboard a null price leaves the price element
\* as it was and a null supply leaves the supply element as it was, and the
\* other element, when present and its own value is a number, is written
\* with that value's text.
C6_FailureLeavesElement ==
    [][(env = "browser" /\ pc = "supply_done") =>
        /\ price = Null =>
            /\ dom'[PriceElementId] = dom[PriceElementId]
            /\ (supply # Null /\ dom[SupplyElementId].present) =>
                \E locale \in Locales :
                    dom'[SupplyElementId].text = toLocaleString(supply, locale, 3)
        /\ supply = Null =>
            /\ dom'[SupplyElementId] = dom[SupplyElementId]
            /\ (IsNum(price) /\ dom[PriceElementId].present) =>
                dom'[PriceElementId].text = <<"$">> \o toFixed(price, 4)
      ]_vars

C6_Witness ==
    /\ env = "browser" /\ pc = "fulfilled"
    /\ price = Null /\ supply = Num(FALSE, <<"1">>, <<"5">>)
    /\ dom[PriceElementId] = Element(TRUE, Placeholder)
    /\ dom[SupplyElementId] = Element(TRUE, <<"1", ",", "5">>)

\* C7: the supply request is issued only after the price fetch resolved, no
\* element is written before both fetches resolved, and the price element
\* is written before the supply element.
C7_Sequential ==
    /\ Occurs("supply_request") => Precedes("price_resolved", "supply_request")
    /\ pc \in {"loading", "price_pending", "price_done", "supply_pending", "supply_done"} =>
        /\ ~Occurs("write_price") /\ ~Occurs("write_supply")
        /\ \A id \in ElementIds : dom[id].present => dom[id].text = Placeholder
    /\ \A w \in {"write_price", "write_supply"} :
        Occurs(w) => Precedes("price_resolved", w) /\ Precedes("supply_resolved", w)
    /\ (Occurs("write_price") /\ Occurs("write_supply")) => Precedes("write_price", "write_supply")
    /\ pc \in {"loading", "price_pending"} => ~Occurs("price_resolved")
    /\ pc \in {"loading", "price_pending", "price_done"} => ~Occurs("supply_request")

C7_Witness ==
    /\ pc = "fulfilled"
    /\ trace = <<"updateDashboard", "price_request", "price_resolved",
                 "supply_request", "supply_resolved", "write_price", "write_supply">>

\* C8: with both display elements absent, the rest of updateDashboard
\* completes normally and changes nothing in the document, whatever the
\* two fetchers returned.
C8_AbsentElements ==
    [][(env = "browser" /\ pc = "supply_done" /\ BothAbsent) =>
        (pc' = "fulfilled" /\ dom' = dom /\ trace' = trace)]_vars

C8_Witness ==
    /\ env = "browser" /\ pc = "fulfilled" /\ BothAbsent
    /\ IsStr(price) /\ supply # Null

\* C9: updateDashboard starts once, at the load event; at most one price
\* request and one supply request are issued and each element is written at
\* most once; a finished run issued exactly one request of each kind.
C9_SingleAttempt ==
    /\ \A e \in {"updateDashboard", "price_request", "supply_request",
                 "price_resolved", "supply_resolved", "write_price", "write_supply"} :
        Count(e) <= 1
    /\ pc = "loading" <=> (env = "browser" /\ trace = <<>>)
    /\ pc \in {"fulfilled", "rejected"} =>
        /\ Count("updateDashboard") = 1
        /\ Count("price_request") = 1
        /\ Count("supply_request") = 1

C9_Witness ==
    /\ env = "browser" /\ pc = "fulfilled"
    /\ price = Null /\ supply = Null
    /\ console = {"Failed to fetch WEED price:", "Failed to fetch token supply:"}
    /\ Count("price_request") = 1 /\ Count("supply_request") = 1

\* C10: every updateDashboard run goes on until its promise fulfils, and
\* never rejects.
C10_CompletesNormally ==
    env = "browser" => (pc # "rejected" /\ (pc = "fulfilled" \/ ENABLED BrowserNext))


=============================================================================
